---- MODULE Spec2Model ----
(***************************************************************************)
(* The two analysis scripts of the repository, ANL_AMZ.py (deforestation   *)
(* of the Legal Amazon) and ANL_PEVS.py (vegetal extraction), as one state *)
(* machine.  A run is either main() of one script, whose loader builds the *)
(* two hardcoded tables, or a caller that hands tables of its own to the   *)
(* module-level functions (entry = "call").                                *)
(*                                                                         *)
(* Numbers.  The scripts compute in IEEE doubles; the model computes the   *)
(* exact rational the double approximates and keeps the three non-finite   *)
(* doubles (inf, -inf, nan) as values of their own.  Sums of products of   *)
(* the hardcoded figures exceed 32 bits, so the least-squares fit and the  *)
(* Pearson coefficients are computed on arbitrary-precision integers.      *)
(***************************************************************************)
EXTENDS Integers, Sequences, FiniteSets, TLC

VARIABLES script, entry, pc, config, df_temporal, df_estados, panels, shown,
          trend, correlacao, stats, printed, outcome, trace

vars == <<script, entry, pc, config, df_temporal, df_estados, panels, shown,
          trend, correlacao, stats, printed, outcome, trace>>

\* Longest table a caller hands in (rows), and the largest cell value it uses.
MaxLen == 4
MaxVal == 2

-----------------------------------------------------------------------------
(* Doubles as exact values: [k |-> "num", n, d] is n/d in lowest terms,    *)
(* d > 0; k is "inf", "-inf" or "nan" for the non-finite doubles.          *)

Abs(x) == IF x < 0 THEN -x ELSE x

RECURSIVE GCD(_, _)
GCD(a, b) == IF b = 0 THEN a ELSE GCD(b, a % b)

Num(n, d) ==
    LET g == GCD(Abs(n), Abs(d))
        s == IF d < 0 THEN -1 ELSE 1
    IN  [k |-> "num", n |-> (s * n) \div g, d |-> (s * d) \div g]

PosInf == [k |-> "inf", n |-> 0, d |-> 1]
NegInf == [k |-> "-inf", n |-> 0, d |-> 1]
NaN == [k |-> "nan", n |-> 0, d |-> 1]

IsFinite(v) == v.k = "num"

FSign(v) ==
    CASE v.k = "inf" -> 1
      [] v.k = "-inf" -> -1
      [] v.k = "nan" -> 0
      [] OTHER -> IF v.n > 0 THEN 1 ELSE IF v.n < 0 THEN -1 ELSE 0

\* numpy's true division of two int64 scalars: a zero divisor gives inf, -inf
\* or nan with a RuntimeWarning, never an exception.
TrueDiv(a, b) ==
    IF b # 0 THEN Num(a, b)
    ELSE IF a > 0 THEN PosInf ELSE IF a < 0 THEN NegInf ELSE NaN

\* double * double, with IEEE's rules for the non-finite values.
FMul(v, w) ==
    IF v.k = "nan" \/ w.k = "nan" THEN NaN
    ELSE IF IsFinite(v) /\ IsFinite(w) THEN Num(v.n * w.n, v.d * w.d)
    ELSE IF FSign(v) * FSign(w) = 0 THEN NaN
    ELSE IF FSign(v) * FSign(w) > 0 THEN PosInf ELSE NegInf

\* format(v, '.<p>f'): v rounded to p decimals, as an integer count of
\* 10^-p units (so the result is not reduced); an exact tie goes to the even
\* neighbour.  A non-finite value prints as itself ('inf', '-inf', 'nan').
Pow10(p) == IF p = 0 THEN 1 ELSE IF p = 1 THEN 10 ELSE 100

RoundHalfEven(n, d) ==
    LET q == n \div d
        r == n % d
    IN  IF 2 * r < d THEN q
        ELSE IF 2 * r > d THEN q + 1
        ELSE IF q % 2 = 0 THEN q ELSE q + 1

Fmt(v, p) ==
    IF IsFinite(v)
    THEN [k |-> "num", n |-> RoundHalfEven(v.n * Pow10(p), v.d), d |-> Pow10(p)]
    ELSE v

-----------------------------------------------------------------------------
(* Arbitrary-precision integers: [s |-> sign, m |-> magnitude], the        *)
(* magnitude a sequence of base-10000 limbs, least significant first, with *)
(* no leading zero limb (zero is the empty sequence).                      *)

RECURSIVE MagOfNat(_)
MagOfNat(n) == IF n = 0 THEN <<>> ELSE <<n % 10000>> \o MagOfNat(n \div 10000)

RECURSIVE MagStrip(_)
MagStrip(a) ==
    IF a = <<>> THEN <<>>
    ELSE IF a[Len(a)] = 0 THEN MagStrip(SubSeq(a, 1, Len(a) - 1)) ELSE a

RECURSIVE MagAddC(_, _, _)
MagAddC(a, b, c) ==
    IF a = <<>> /\ b = <<>> THEN (IF c = 0 THEN <<>> ELSE <<c>>)
    ELSE LET x == IF a = <<>> THEN 0 ELSE Head(a)
             y == IF b = <<>> THEN 0 ELSE Head(b)
             t == x + y + c
         IN  <<t % 10000>> \o MagAddC(IF a = <<>> THEN a ELSE Tail(a),
                                      IF b = <<>> THEN b ELSE Tail(b),
                                      t \div 10000)

MagAdd(a, b) == MagAddC(a, b, 0)

\* -1, 0, 1 as a < b, a = b, a > b.
RECURSIVE MagCmpTop(_, _, _)
MagCmpTop(a, b, i) ==
    IF i = 0 THEN 0
    ELSE IF a[i] < b[i] THEN -1
    ELSE IF a[i] > b[i] THEN 1
    ELSE MagCmpTop(a, b, i - 1)

MagCmp(a, b) ==
    IF Len(a) < Len(b) THEN -1
    ELSE IF Len(a) > Len(b) THEN 1
    ELSE MagCmpTop(a, b, Len(a))

\* a - b for a >= b.
RECURSIVE MagSubB(_, _, _)
MagSubB(a, b, br) ==
    IF a = <<>> THEN <<>>
    ELSE LET y == IF b = <<>> THEN 0 ELSE Head(b)
             t == Head(a) - y - br
         IN  <<IF t < 0 THEN t + 10000 ELSE t>>
             \o MagSubB(Tail(a), IF b = <<>> THEN b ELSE Tail(b),
                        IF t < 0 THEN 1 ELSE 0)

MagSub(a, b) == MagStrip(MagSubB(a, b, 0))

RECURSIVE MagMulLimb(_, _, _)
MagMulLimb(a, x, c) ==
    IF a = <<>> THEN (IF c = 0 THEN <<>> ELSE <<c>>)
    ELSE LET t == Head(a) * x + c
         IN  <<t % 10000>> \o MagMulLimb(Tail(a), x, t \div 10000)

RECURSIVE MagMul(_, _)
MagMul(a, b) ==
    IF a = <<>> \/ b = <<>> THEN <<>>
    ELSE MagStrip(MagAdd(MagMulLimb(b, Head(a), 0),
                         IF Tail(a) = <<>> THEN <<>>
                         ELSE <<0>> \o MagMul(Tail(a), b)))

ZOfInt(i) == [s |-> IF i > 0 THEN 1 ELSE IF i < 0 THEN -1 ELSE 0,
              m |-> MagOfNat(Abs(i))]

ZNeg(a) == [s |-> -a.s, m |-> a.m]

ZAdd(a, b) ==
    IF a.s = 0 THEN b
    ELSE IF b.s = 0 THEN a
    ELSE IF a.s = b.s THEN [s |-> a.s, m |-> MagAdd(a.m, b.m)]
    ELSE LET c == MagCmp(a.m, b.m)
         IN  IF c = 0 THEN [s |-> 0, m |-> <<>>]
             ELSE IF c > 0 THEN [s |-> a.s, m |-> MagSub(a.m, b.m)]
             ELSE [s |-> b.s, m |-> MagSub(b.m, a.m)]

ZSub(a, b) == ZAdd(a, ZNeg(b))

ZMul(a, b) == [s |-> a.s * b.s, m |-> MagMul(a.m, b.m)]

\* -1, 0, 1 as a < b, a = b, a > b.
ZCmp(a, b) == ZSub(a, b).s

-----------------------------------------------------------------------------
(* Series (DataFrame columns) and what the scripts call on them.           *)

RECURSIVE SumSeq(_)
SumSeq(s) == IF s = <<>> THEN 0 ELSE Head(s) + SumSeq(Tail(s))

\* Series.iloc[i] for a Python position i (negative: from the end); the
\* access raises IndexError when IlocOK is false.
IlocOK(s, i) == IF i < 0 THEN -i <= Len(s) ELSE i < Len(s)

Iloc(s, i) == IF i < 0 THEN s[Len(s) + i + 1] ELSE s[i + 1]

\* Series.idxmax(): the label (row position, 1-based here) of the first
\* occurrence of the maximum; ValueError on an empty series.
RECURSIVE ArgMaxFrom(_, _, _)
ArgMaxFrom(s, i, best) ==
    IF i > Len(s) THEN best
    ELSE ArgMaxFrom(s, i + 1, IF s[i] > s[best] THEN i ELSE best)

RECURSIVE ArgMaxLastFrom(_, _, _)
ArgMaxLastFrom(s, i, best) ==
    IF i > Len(s) THEN best
    ELSE ArgMaxLastFrom(s, i + 1, IF s[i] >= s[best] THEN i ELSE best)

IdxMaxLast(s) == ArgMaxLastFrom(s, 2, 1)
IdxMax(s) == ArgMaxFrom(s, 2, 1)

\* Series.mean(): nan on an empty series.
Mean(s) == IF s = <<>> THEN NaN ELSE Num(SumSeq(s), Len(s))

\* The growth the calculators compute between two cells of a column:
\* ((to - from) / from) * 100 on numpy int64 scalars.
PctOverTarget(from, to) == FMul(TrueDiv(to - from, to), Num(100, 1))
PctChange(from, to) == FMul(TrueDiv(to - from, from), Num(100, 1))

\* The reduction calcular_metricas_ambientais computes:
\* ((from - to) / from) * 100, positive when the column fell.
PctSigned(from, to) == PctChange(from, to)
PctReduction(from, to) == FMul(TrueDiv(from - to, from), Num(100, 1))

-----------------------------------------------------------------------------
(* np.polyfit(x, y, 1) and DataFrame.corr().  Both work on the centred     *)
(* columns; the model centres them as n*x[i] - sum(x), which keeps every    *)
(* term an integer and leaves the fitted line and the coefficient          *)
(* unchanged.                                                              *)

Centred(s) ==
    LET n == Len(s)
        sum == SumSeq(s)
    IN  [i \in 1..n |-> n * s[i] - sum]

RECURSIVE ZDot(_, _)
ZDot(a, b) ==
    IF a = <<>> THEN ZOfInt(0)
    ELSE ZAdd(ZMul(ZOfInt(Head(a)), ZOfInt(Head(b))), ZDot(Tail(a), Tail(b)))

\* A big rational with a positive denominator.
QZ(n, d) == IF d.s < 0 THEN [n |-> ZNeg(n), d |-> ZNeg(d)] ELSE [n |-> n, d |-> d]

QZero == [n |-> ZOfInt(0), d |-> ZOfInt(1)]

\* The outcomes of polyfit on paired columns x, y of one table:
\*   res = "TypeError"  x is empty ("expected non-empty vector for x");
\*   res = "fit"        coefficients returned.  rank = 2 is the least-squares
\*                      line.  rank = 1 (a single row, or every x the same
\*                      non-zero value) is lstsq's minimum-norm solution of
\*                      the column-scaled system; numpy then issues a
\*                      RankWarning, which warnings.filterwarnings('ignore')
\*                      discards;
\*   res = "degenerate" every x is 0: the column scale is 0 and the scaled
\*                      matrix holds 0/0.  What lstsq does with it depends on
\*                      the LAPACK build (PolyfitOutcomes).
Polyfit(x, y) ==
    LET n == Len(x)
        sx == SumSeq(x)
        sy == SumSeq(y)
        dx == Centred(x)
        dy == Centred(y)
        sxx == ZDot(dx, dx)
        sxy == ZDot(dx, dy)
    IN  IF n = 0
        THEN [res |-> "TypeError", rank |-> 0, slope |-> QZero, intercept |-> QZero]
        ELSE IF sxx.s # 0
        THEN [res |-> "fit", rank |-> 2,
              slope |-> QZ(sxy, sxx),
              intercept |-> QZ(ZSub(ZMul(ZOfInt(sy), sxx), ZMul(sxy, ZOfInt(sx))),
                               ZMul(ZOfInt(n), sxx))]
        ELSE IF x[1] # 0
        THEN [res |-> "fit", rank |-> 1,
              slope |-> QZ(ZOfInt(sy), ZOfInt(2 * n * x[1])),
              intercept |-> QZ(ZOfInt(sy), ZOfInt(2 * n))]
        ELSE [res |-> "degenerate", rank |-> 0, slope |-> QZero, intercept |-> QZero]

\* What a call of polyfit can end in: for a degenerate system either lstsq
\* raises LinAlgError (the SVD does not converge) or it returns nan
\* coefficients.
PolyfitOutcomes(x, y) ==
    LET z == Polyfit(x, y)
    IN  IF z.res = "degenerate"
        THEN {[z EXCEPT !.res = "LinAlgError"], [z EXCEPT !.res = "nanfit"]}
        ELSE {z}

\* One Pearson coefficient as pandas' nancorr computes it (min_periods = 1):
\* covxy / sqrt(ssqdx * ssqdy) when that divisor is not 0, else nan.  A column
\* with fewer than 2 observations or with no variance has ssqd = 0.  The
\* coefficient is kept as its sign s and its square n/d (limb sequences).
CoefNaN == [k |-> "nan", s |-> 0, n |-> <<>>, d |-> <<>>]

PearsonZeroFill(x, y) ==
    LET dx == Centred(x)
        dy == Centred(y)
        sxx == ZDot(dx, dx)
        syy == ZDot(dy, dy)
        sxy == ZDot(dx, dy)
    IN  IF Len(x) < 1 \/ sxx.s = 0 \/ syy.s = 0
        THEN [k |-> "num", s |-> 0, n |-> <<>>, d |-> <<1>>]
        ELSE [k |-> "num", s |-> sxy.s, n |-> MagMul(sxy.m, sxy.m),
              d |-> MagMul(sxx.m, syy.m)]

PearsonRegression(x, y) ==
    LET dx == Centred(x)
        dy == Centred(y)
        sxx == ZDot(dx, dx)
        syy == ZDot(dy, dy)
        sxy == ZDot(dx, dy)
    IN  IF Len(x) < 1 \/ sxx.s = 0 \/ syy.s = 0 THEN CoefNaN
        ELSE [k |-> "num", s |-> sxy.s, n |-> MagMul(sxy.m, sxy.m),
              d |-> MagMul(sxx.m, sxx.m)]

Pearson(x, y) ==
    LET dx == Centred(x)
        dy == Centred(y)
        sxx == ZDot(dx, dx)
        syy == ZDot(dy, dy)
        sxy == ZDot(dx, dy)
    IN  IF Len(x) < 1 \/ sxx.s = 0 \/ syy.s = 0 THEN CoefNaN
        ELSE [k |-> "num", s |-> sxy.s, n |-> MagMul(sxy.m, sxy.m),
              d |-> MagMul(sxx.m, syy.m)]

-----------------------------------------------------------------------------
(* The hardcoded tables.  A column of doubles is a sequence of exact       *)
(* values (Num); a column of integers a sequence of integers.              *)

\* carregar_dados_desmatamento: dados_temporais, dados_estados.
AmzTemporal ==
    [Ano |-> <<2020, 2021, 2022, 2023, 2024>>,
     Area_Desmatada_km2 |-> <<10851, 11038, 11568, 9001, 6288>>,
     Multas_Aplicadas |-> <<12500, 13200, 14800, 15847, 16200>>,
     Valor_Multas_Bilhoes |-> <<Num(18, 10), Num(19, 10), Num(20, 10),
                                Num(21, 10), Num(23, 10)>>,
     Multas_Pagas_Percentual |-> <<Num(10, 1), Num(11, 1), Num(115, 10),
                                   Num(12, 1), Num(12, 1)>>]

AmzEstados ==
    [Estado |-> <<"Pará", "Amazonas", "Rondônia", "Acre", "Mato Grosso">>,
     Percentual_Desmatamento |-> <<41, 25, 18, 8, 8>>,
     Area_km2_2024 |-> <<2578, 1572, 1132, 503, 503>>,
     Multas_2024 |-> <<6642, 4050, 2916, 1296, 1296>>]

\* carregar_dados: dados_acai, dados_estados.
PevsTemporal ==
    [Ano |-> <<2019, 2020, 2021, 2022, 2023, 2024>>,
     Producao_Acai |-> <<222706, 225430, 230150, 235890, 242100, 247461>>,
     Carvao_Vegetal |-> <<372355, 385200, 398750, 420300, 465800, 502512>>,
     Erva_Mate |-> <<185000, 190000, 188000, 192000, 195000, 198000>>]

PevsEstados ==
    [Estado |-> <<"Pará", "Amazonas", "Acre", "Rondônia", "Maranhão">>,
     Producao_Acai |-> <<98500, 75200, 35600, 25800, 12361>>,
     Percentual |-> <<Num(398, 10), Num(304, 10), Num(144, 10),
                      Num(104, 10), Num(50, 10)>>,
     PIB_Agropecuario |-> <<Num(152, 10), Num(85, 10), Num(42, 10),
                            Num(68, 10), Num(31, 10)>>]

Scripts == {"AMZ", "PEVS"}

\* pd.DataFrame(dict of lists) raises ValueError unless every list has the
\* same length; it checks nothing else about the values.
DataFrameOK(d) == \A a, b \in DOMAIN d : Len(d[a]) = Len(d[b])

LoadedTemporalRepeatedYear(s) ==
    [(IF s = "AMZ" THEN AmzTemporal ELSE PevsTemporal) EXCEPT !.Ano[2] = @ - 1]

LoadedTemporal(s) == IF s = "AMZ" THEN AmzTemporal ELSE PevsTemporal
LoadedEstadosFourStates(s) ==
    LET t == IF s = "AMZ" THEN AmzEstados ELSE PevsEstados
    IN  [c \in DOMAIN t |-> SubSeq(t[c], 1, Len(t[c]) - 1)]

LoadedEstados(s) == IF s = "AMZ" THEN AmzEstados ELSE PevsEstados

-----------------------------------------------------------------------------
(* The tables a caller hands to the functions: the first n rows of the     *)
(* hardcoded table (n <= MaxLen; the last row repeats if n is larger than  *)
(* the table, years keep counting up) with one or more integer columns     *)
(* overwritten by small values, zeros and ties included.  A table with no  *)
(* rows is the 0-row slice df.iloc[0:0], which keeps the column types.     *)

Vals == 0..MaxVal

SmallColumns == UNION {[1..n -> Vals] : n \in 0..MaxLen}

Prefix(col, n) ==
    [i \in 1..n |-> col[IF i <= Len(col) THEN i ELSE Len(col)]]

Years(col, n) == [i \in 1..n |-> col[1] + i - 1]

\* Table t cut to Len(c) rows, the columns named in mask replaced by c.
Overwrite(t, mask, c) ==
    [f \in DOMAIN t |->
        IF f \in mask THEN c
        ELSE IF f = "Ano" THEN Years(t[f], Len(c))
        ELSE Prefix(t[f], Len(c))]

TemporalMasks(s) ==
    IF s = "AMZ"
    THEN SUBSET {"Area_Desmatada_km2", "Multas_Aplicadas"} \ {{}}
    ELSE SUBSET {"Producao_Acai", "Carvao_Vegetal", "Erva_Mate"} \ {{}}

EstadosMetric(s) == IF s = "AMZ" THEN "Percentual_Desmatamento" ELSE "Producao_Acai"

CallerTemporal(s) ==
    {Overwrite(LoadedTemporal(s), m, c) : m \in TemporalMasks(s), c \in SmallColumns}

CallerEstados(s) ==
    {Overwrite(LoadedEstados(s), {EstadosMetric(s)}, c) : c \in SmallColumns}

\* A caller varies one table at a time.
CallerTables(s) ==
    (CallerTemporal(s) \X {LoadedEstados(s)})
    \cup ({LoadedTemporal(s)} \X CallerEstados(s))

-----------------------------------------------------------------------------
(* State.                                                                  *)
(*   script, entry   which script runs, and whether main() runs it or a    *)
(*                   caller invokes its functions on tables of its own     *)
(*   pc              how many steps of MainOrder have returned             *)
(*   config          the plotting style set process-wide                   *)
(*   df_temporal, df_estados   the two tables (<<>> before they exist)     *)
(*   panels          the artists drawn so far, in drawing order            *)
(*   shown           how many figures plt.show() has displayed             *)
(*   trend           the polyfit results so far                            *)
(*   correlacao      the matrix analise_correlacao returned (<<>>: none)   *)
(*   stats           the dictionary the calculator returned (<<>>: none)   *)
(*   printed         the report lines that carry a computed value          *)
(*   outcome         "none", or the exception that ended the run           *)
(*   trace           the order of loads, draws, computations and reads     *)

\* main(): the functions in call order.
MainOrderCalcFirst(s) ==
    IF s = "AMZ"
    THEN <<"configurar", "carregar", "calcular", "dashboard", "gerar">>
    ELSE <<"configurar", "carregar", "calcular", "dashboard", "correlacao", "gerar">>

MainOrder(s) ==
    IF s = "AMZ"
    THEN <<"configurar", "carregar", "dashboard", "calcular", "gerar">>
    ELSE <<"configurar", "carregar", "dashboard", "correlacao", "calcular", "gerar">>

Position(s, step) == CHOOSE k \in 1..Len(MainOrder(s)) : MainOrder(s)[k] = step

\* main() calls each function when the one before it has returned.  A
\* caller holds tables already, may skip functions, keeps their order, hands
\* the chart functions the hardcoded per-state table, and hands the report
\* printer the dictionary the calculator returned.
StepEnabled(step) ==
    /\ outcome = "none"
    /\ step \in {MainOrder(script)[k] : k \in 1..Len(MainOrder(script))}
    /\ LET k == Position(script, step)
       IN  IF entry = "main" THEN pc = k - 1
           ELSE /\ pc >= Position(script, "carregar")
                /\ pc < k
                /\ step = "gerar" => pc = Position(script, "calcular")
                /\ step = "dashboard" => df_estados = LoadedEstados(script)

Returned(step) == Position(script, step)

Event(ev, what) == <<ev, what>>

Init ==
    /\ script \in Scripts
    /\ entry \in {"main", "call"}
    /\ IF entry = "main"
       THEN /\ pc = 0
            /\ df_temporal = <<>>
            /\ df_estados = <<>>
       ELSE /\ pc = Position(script, "carregar")
            /\ \E tables \in CallerTables(script) :
                  /\ df_temporal = tables[1]
                  /\ df_estados = tables[2]
    /\ config = "unset"
    /\ panels = <<>>
    /\ shown = 0
    /\ trend = <<>>
    /\ correlacao = <<>>
    /\ stats = <<>>
    /\ printed = <<>>
    /\ outcome = "none"
    /\ trace = <<>>

\* configurar_ambiente_colab / configurar_graficos.
Configurar ==
    /\ StepEnabled("configurar")
    /\ config' = IF script = "AMZ" THEN "seaborn-v0_8" ELSE "default"
    /\ pc' = Returned("configurar")
    /\ trace' = Append(trace, Event("config", config'))
    /\ UNCHANGED <<script, entry, df_temporal, df_estados, panels, shown, trend,
                   correlacao, stats, printed, outcome>>

\* carregar_dados_desmatamento / carregar_dados.  The first prints the
\* reduction between the 2022 and 2024 literals.
Carregar ==
    /\ StepEnabled("carregar")
    /\ IF DataFrameOK(LoadedTemporal(script)) /\ DataFrameOK(LoadedEstados(script))
       THEN /\ df_temporal' = LoadedTemporal(script)
            /\ df_estados' = LoadedEstados(script)
            /\ printed' = IF script = "AMZ"
                          THEN Append(printed, [line |-> "Redução total",
                                                val |-> Fmt(PctReduction(11568, 6288), 1)])
                          ELSE printed
            /\ pc' = Returned("carregar")
            /\ trace' = Append(trace, Event("load", "tables"))
            /\ outcome' = "none"
       ELSE /\ outcome' = "ValueError"
            /\ UNCHANGED <<df_temporal, df_estados, printed, pc, trace>>
    /\ UNCHANGED <<script, entry, config, panels, shown, trend, correlacao, stats>>

-----------------------------------------------------------------------------
(* Chart functions.  An artist is one plot call on one axes: the figure,   *)
(* the axes' grid position, the kind, the columns bound to it and the      *)
(* number of points it draws.                                              *)

Artist(fig, ax, kind, x, y, n) ==
    [fig |-> fig, ax |-> ax, kind |-> kind, x |-> x, y |-> y, n |-> n]

Raises(z) == z.res \in {"TypeError", "LinAlgError"}

\* criar_dashboard_ambiental: the nine plot calls in source order.  polyfit
\* runs between the 1st and the 2nd, and between the 8th and the 9th.
AmbientalArtists(t, e) ==
    <<Artist(1, <<0, 0>>, "line", "Ano", "Area_Desmatada_km2", Len(t.Ano)),
      Artist(1, <<0, 0>>, "trend", "Ano", "Area_Desmatada_km2", Len(t.Ano)),
      Artist(1, <<0, 1>>, "bar", "Estado", "Area_km2_2024", Len(e.Estado)),
      Artist(1, <<0, 2>>, "pie", "Estado", "Percentual_Desmatamento", Len(e.Estado)),
      Artist(1, <<1, 0>>, "bar", "Ano", "Multas_Aplicadas", Len(t.Ano)),
      Artist(1, <<1, 1>>, "line", "Ano", "Valor_Multas_Bilhoes", Len(t.Ano)),
      Artist(1, <<1, 1>>, "twin-line", "Ano", "Multas_Pagas_Percentual", Len(t.Ano)),
      Artist(1, <<1, 2>>, "scatter", "Area_Desmatada_km2", "Multas_Aplicadas", Len(t.Ano)),
      Artist(1, <<1, 2>>, "trend", "Area_Desmatada_km2", "Multas_Aplicadas", Len(t.Ano))>>

\* What drawing one artist adds to the trace: a trend line is drawn from the
\* fit computed just before it.
ArtistEvents(a) ==
    IF a.kind = "trend"
    THEN <<Event("stat", "trend " \o a.y), Event("use", "trend " \o a.y),
           Event("panel", a.kind)>>
    ELSE IF a.kind = "heatmap"
    THEN <<Event("stat", "correlacao"), Event("use", "correlacao"),
           Event("panel", a.kind)>>
    ELSE <<Event("panel", a.kind)>>

RECURSIVE EventsOf(_)
EventsOf(as) == IF as = <<>> THEN <<>> ELSE ArtistEvents(Head(as)) \o EventsOf(Tail(as))

criar_dashboard_ambiental ==
    /\ StepEnabled("dashboard")
    /\ script = "AMZ"
    /\ \E z1 \in PolyfitOutcomes(df_temporal.Ano, df_temporal.Area_Desmatada_km2),
          z2 \in PolyfitOutcomes(df_temporal.Area_Desmatada_km2,
                                 df_temporal.Multas_Aplicadas) :
         LET all == AmbientalArtists(df_temporal, df_estados)
             drawn == IF Raises(z1) THEN 1 ELSE IF Raises(z2) THEN 8 ELSE Len(all)
             done == SubSeq(all, 1, drawn)
         IN  /\ panels' = panels \o done
             /\ trend' = trend \o (IF Raises(z1) THEN <<>>
                                   ELSE IF Raises(z2) THEN <<z1>> ELSE <<z1, z2>>)
             /\ outcome' = IF Raises(z1) THEN z1.res
                           ELSE IF Raises(z2) THEN z2.res ELSE "none"
             /\ shown' = IF drawn = Len(all) THEN shown + 1 ELSE shown
             /\ pc' = IF drawn = Len(all) THEN Returned("dashboard") ELSE pc
             /\ trace' = trace \o EventsOf(done)
    /\ UNCHANGED <<script, entry, config, df_temporal, df_estados, correlacao,
                   stats, printed>>

PrincipalArtistsPieFirst(t, e) ==
    <<Artist(1, <<1, 1>>, "pie", "Estado", "Producao_Acai", Len(e.Estado)),
      Artist(1, <<0, 0>>, "line", "Ano", "Producao_Acai", Len(t.Ano)),
      Artist(1, <<0, 1>>, "bar", "Ano", "Producao_Acai", Len(t.Ano)),
      Artist(1, <<0, 1>>, "bar", "Ano", "Carvao_Vegetal", Len(t.Ano)),
      Artist(1, <<1, 0>>, "barh", "Estado", "Producao_Acai", Len(e.Estado))>>

\* criar_dashboard_principal: the five plot calls in source order (the
\* grouped bar panel is two bar calls on one axes).  Nothing in it looks at
\* the number of rows.
PrincipalArtists(t, e) ==
    <<Artist(1, <<0, 0>>, "line", "Ano", "Producao_Acai", Len(t.Ano)),
      Artist(1, <<0, 1>>, "bar", "Ano", "Producao_Acai", Len(t.Ano)),
      Artist(1, <<0, 1>>, "bar", "Ano", "Carvao_Vegetal", Len(t.Ano)),
      Artist(1, <<1, 0>>, "barh", "Estado", "Producao_Acai", Len(e.Estado)),
      Artist(1, <<1, 1>>, "pie", "Estado", "Producao_Acai", Len(e.Estado))>>

criar_dashboard_principal ==
    /\ StepEnabled("dashboard")
    /\ script = "PEVS"
    /\ panels' = panels \o PrincipalArtists(df_temporal, df_estados)
    /\ shown' = shown + 1
    /\ pc' = Returned("dashboard")
    /\ trace' = trace \o EventsOf(PrincipalArtists(df_temporal, df_estados))
    /\ UNCHANGED <<script, entry, config, df_temporal, df_estados, trend,
                   correlacao, stats, printed, outcome>>

\* analise_correlacao: a renamed copy of the three product columns, its
\* Pearson matrix, and the heatmap of it on a figure of its own.  nancorr
\* computes each pair once and stores it at [a, b] and [b, a].  seaborn
\* masks the nan cells: they are drawn blank and carry no annotation.
CorrNames == <<"Açaí", "Carvão Vegetal", "Erva-Mate">>

CorrColumns(t) ==
    [c \in {CorrNames[i] : i \in 1..3} |->
        IF c = CorrNames[1] THEN t.Producao_Acai
        ELSE IF c = CorrNames[2] THEN t.Carvao_Vegetal ELSE t.Erva_Mate]

NameIndex(c) == CHOOSE i \in 1..3 : CorrNames[i] = c

Corr(cols) ==
    LET col(i) == cols[CorrNames[i]]
        lower == <<<<Pearson(col(1), col(1))>>,
                   <<Pearson(col(2), col(1)), Pearson(col(2), col(2))>>,
                   <<Pearson(col(3), col(1)), Pearson(col(3), col(2)),
                     Pearson(col(3), col(3))>>>>
    IN  [p \in (DOMAIN cols) \X (DOMAIN cols) |->
            IF NameIndex(p[1]) >= NameIndex(p[2])
            THEN lower[NameIndex(p[1])][NameIndex(p[2])]
            ELSE lower[NameIndex(p[2])][NameIndex(p[1])]]

Annotated(m) == Cardinality({p \in DOMAIN m : m[p].k = "num"})

\* The objects analise_correlacao holds: obj[1] is the caller's table, and
\* df_temporal[[...]].copy() is a new object, obj[2], that only the name
\* dados_corr refers to.
ProductColumns == {"Producao_Acai", "Carvao_Vegetal", "Erva_Mate"}

SelectView(t) ==
    [obj |-> <<t, [c \in ProductColumns |-> t[c]]>>,
     df_temporal |-> 1, dados_corr |-> 1]

SelectCopy(t) ==
    [obj |-> <<t, [c \in ProductColumns |-> t[c]]>>,
     df_temporal |-> 1, dados_corr |-> 2]

\* dados_corr.columns = [...]: the object dados_corr refers to gets the new
\* labels on its product columns, in selection order; no other object does.
SetColumns(h) ==
    LET frame == h.obj[h.dados_corr]
        kept == DOMAIN frame \ ProductColumns
        renamed == CorrColumns(frame)
    IN  [h EXCEPT !.obj[h.dados_corr] =
            [c \in kept \cup DOMAIN renamed |->
                IF c \in kept THEN frame[c] ELSE renamed[c]]]

\* corr() is taken over the labelled columns of dados_corr; the caller's
\* table is whatever obj[1] holds when the function returns.
analise_correlacao ==
    /\ StepEnabled("correlacao")
    /\ LET h == SetColumns(SelectCopy(df_temporal))
           dados_corr == h.obj[h.dados_corr]
       IN  /\ correlacao' = Corr([c \in DOMAIN CorrColumns(df_temporal) |-> dados_corr[c]])
           /\ df_temporal' = h.obj[h.df_temporal]
    /\ LET heat == Artist(2, <<0, 0>>, "heatmap", "correlacao", "correlacao",
                          Annotated(correlacao'))
       IN  /\ panels' = Append(panels, heat)
           /\ trace' = trace \o ArtistEvents(heat)
    /\ shown' = shown + 1
    /\ pc' = Returned("correlacao")
    /\ UNCHANGED <<script, entry, config, df_estados, trend, stats, printed,
                   outcome>>

-----------------------------------------------------------------------------
(* Calculators.                                                            *)

\* The dictionary calcular_metricas_ambientais returns.
MetricasRenamed(reducao, aumento, valor, projecao) ==
    [reducao_desmatamento |-> reducao, aumento_multas |-> aumento,
     valor_arrecadado |-> valor, projecao |-> projecao]

Metricas(reducao, aumento, valor, projecao) ==
    [reducao_desmatamento |-> reducao, aumento_multas |-> aumento,
     valor_arrecadado |-> valor, projecao_2025 |-> projecao]

Line(label, v) == [line |-> label, val |-> v]

\* calcular_metricas_ambientais.  Area.iloc[2] raises IndexError on a table
\* of fewer than 3 rows, before anything is printed; idxmax raises
\* ValueError on an empty per-state table, after the first two result lines.
calcular_metricas_ambientais ==
    /\ StepEnabled("calcular")
    /\ script = "AMZ"
    /\ IF ~IlocOK(df_temporal.Area_Desmatada_km2, 2)
       THEN /\ outcome' = "IndexError"
            /\ UNCHANGED <<stats, printed, pc, trace>>
       ELSE LET area == df_temporal.Area_Desmatada_km2
                multas == df_temporal.Multas_Aplicadas
                reducao_desmatamento == PctReduction(Iloc(area, 2), Iloc(area, -1))
                aumento_multas == PctChange(Iloc(multas, 0), Iloc(multas, -1))
                valor_total_2024 == Iloc(df_temporal.Valor_Multas_Bilhoes, -1)
                valor_arrecadado == FMul(valor_total_2024, Num(12, 100))
                area_2024 == Iloc(area, -1)
                projecao_2025 == FMul(Num(area_2024, 1), Num(7, 10))
                computed == <<Event("stat", "reducao_desmatamento"),
                              Event("stat", "aumento_multas"),
                              Event("stat", "valor_arrecadado"),
                              Event("stat", "projecao_2025")>>
                first == <<Line("Redução do desmatamento", Fmt(reducao_desmatamento, 1)),
                           Line("Aumento das multas", Fmt(aumento_multas, 1))>>
                metric == df_estados.Percentual_Desmatamento
            IN  IF metric = <<>>
                THEN /\ outcome' = "ValueError"
                     /\ printed' = printed \o first
                     /\ trace' = trace \o computed
                     /\ UNCHANGED <<stats, pc>>
                ELSE /\ printed' = printed \o first \o
                          <<Line("Estado com maior desmatamento",
                                 df_estados.Estado[IdxMax(metric)]),
                            Line("Efetividade das multas", Fmt(valor_arrecadado, 2)),
                            Line("Projeção 2025", Fmt(projecao_2025, 0))>>
                     /\ stats' = Metricas(reducao_desmatamento, aumento_multas,
                                          valor_arrecadado, projecao_2025)
                     /\ trace' = trace \o computed
                     /\ pc' = Returned("calcular")
                     /\ outcome' = "none"
    /\ UNCHANGED <<script, entry, config, df_temporal, df_estados, panels, shown,
                   trend, correlacao>>

\* The dictionary calcular_estatisticas returns.
Estatisticas(acai, carvao, lider, total) ==
    [crescimento_acai |-> acai, crescimento_carvao |-> carvao,
     estado_lider |-> lider, producao_total |-> total]

\* calcular_estatisticas.  iloc[-1] raises IndexError on an empty time
\* series and idxmax raises ValueError on an empty per-state table, both
\* before anything is printed.
calcular_estatisticas ==
    /\ StepEnabled("calcular")
    /\ script = "PEVS"
    /\ IF ~IlocOK(df_temporal.Producao_Acai, -1)
       THEN /\ outcome' = "IndexError"
            /\ UNCHANGED <<stats, printed, pc, trace>>
       ELSE LET acai == df_temporal.Producao_Acai
                carvao == df_temporal.Carvao_Vegetal
                crescimento_acai == PctChange(Iloc(acai, 0), Iloc(acai, -1))
                crescimento_carvao == PctChange(Iloc(carvao, 0), Iloc(carvao, -1))
                metric == df_estados.Producao_Acai
            IN  IF metric = <<>>
                THEN /\ outcome' = "ValueError"
                     /\ trace' = trace \o <<Event("stat", "crescimento_acai"),
                                            Event("stat", "crescimento_carvao")>>
                     /\ UNCHANGED <<stats, printed, pc>>
                ELSE LET estado_lider == df_estados.Estado[IdxMax(metric)]
                         producao_total == SumSeq(metric)
                     IN  /\ printed' = printed \o
                              <<Line("Crescimento do Açaí", Fmt(crescimento_acai, 1)),
                                Line("Crescimento do Carvão Vegetal",
                                     Fmt(crescimento_carvao, 1)),
                                Line("Estado líder", estado_lider),
                                Line("Produção total 2024", producao_total),
                                Line("Média anual açaí", Fmt(Mean(acai), 0))>>
                         /\ stats' = Estatisticas(crescimento_acai, crescimento_carvao,
                                                  estado_lider, producao_total)
                         /\ trace' = trace \o <<Event("stat", "crescimento_acai"),
                                                Event("stat", "crescimento_carvao"),
                                                Event("stat", "estado_lider"),
                                                Event("stat", "producao_total")>>
                         /\ pc' = Returned("calcular")
                         /\ outcome' = "none"
    /\ UNCHANGED <<script, entry, config, df_temporal, df_estados, panels, shown,
                   trend, correlacao>>

-----------------------------------------------------------------------------
(* Report printers.  Subscripting the dictionary with a key it lacks       *)
(* raises KeyError.                                                        *)

\* The keys each printer subscripts, in evaluation order.
KeysRead(s) ==
    IF s = "AMZ" THEN <<"projecao_2025">>
    ELSE <<"crescimento_acai", "estado_lider", "crescimento_carvao">>

Missing(d, keys) == {i \in 1..Len(keys) : keys[i] \notin DOMAIN d}

Min(S) == CHOOSE x \in S : \A y \in S : x <= y

ReadEvents(keys, n) == [i \in 1..n |-> Event("use", keys[i])]

\* gerar_recomendacoes_ambientais: the priority lines are printed before the
\* projection is read.
gerar_recomendacoes_ambientais ==
    /\ StepEnabled("gerar")
    /\ script = "AMZ"
    /\ LET keys == KeysRead(script)
           miss == Missing(stats, keys)
       IN  IF miss # {}
           THEN /\ outcome' = "KeyError"
                /\ trace' = trace \o ReadEvents(keys, Min(miss) - 1)
                /\ UNCHANGED <<printed, pc>>
           ELSE /\ printed' = Append(printed,
                       Line("Se mantidas as políticas atuais",
                            Fmt(stats["projecao_2025"], 0)))
                /\ trace' = trace \o ReadEvents(keys, Len(keys))
                /\ pc' = Returned("gerar")
                /\ outcome' = "none"
    /\ UNCHANGED <<script, entry, config, df_temporal, df_estados, panels, shown,
                   trend, correlacao, stats>>

\* gerar_insights: the list of insight strings is built, reading the three
\* keys, before any of it is printed.
gerar_insights ==
    /\ StepEnabled("gerar")
    /\ script = "PEVS"
    /\ LET keys == KeysRead(script)
           miss == Missing(stats, keys)
       IN  IF miss # {}
           THEN /\ outcome' = "KeyError"
                /\ trace' = trace \o ReadEvents(keys, Min(miss) - 1)
                /\ UNCHANGED <<printed, pc>>
           ELSE /\ printed' = printed \o
                       <<Line("Açaí apresenta crescimento sustentável",
                              Fmt(stats["crescimento_acai"], 1)),
                         Line("domina a produção nacional", stats["estado_lider"]),
                         Line("Carvão vegetal cresceu",
                              Fmt(stats["crescimento_carvao"], 1))>>
                /\ trace' = trace \o ReadEvents(keys, Len(keys))
                /\ pc' = Returned("gerar")
                /\ outcome' = "none"
    /\ UNCHANGED <<script, entry, config, df_temporal, df_estados, panels, shown,
                   trend, correlacao, stats>>

\* main() prints its closing banner and returns.
Concluir ==
    /\ entry = "main"
    /\ outcome = "none"
    /\ pc = Len(MainOrder(script))
    /\ pc' = pc + 1
    /\ trace' = Append(trace, Event("done", "main"))
    /\ UNCHANGED <<script, entry, config, df_temporal, df_estados, panels, shown,
                   trend, correlacao, stats, printed, outcome>>

Next ==
    \/ Configurar
    \/ Carregar
    \/ criar_dashboard_ambiental
    \/ criar_dashboard_principal
    \/ analise_correlacao
    \/ calcular_metricas_ambientais
    \/ calcular_estatisticas
    \/ gerar_recomendacoes_ambientais
    \/ gerar_insights
    \/ Concluir

Spec == Init /\ [][Next]_vars

-----------------------------------------------------------------------------
(* Properties.                                                             *)

\* v is the finite value num/den (v is in lowest terms, so its denominator
\* divides den).
IsQuotient(v, num, den) ==
    /\ v.k = "num"
    /\ den % v.d = 0
    /\ v.n * (den \div v.d) = num

HasStats == DOMAIN stats # {}
HasTables == DOMAIN df_temporal # {}
First(s) == s[1]
Last(s) == s[Len(s)]
PrintedVal(label) ==
    LET i == CHOOSE i \in 1..Len(printed) : printed[i].line = label
    IN  printed[i].val
ReferenceArea == <<10851, 11038, 11568, 9001, 6288>>

\* C1 (as amended): for the deforestation series
\* [10851, 11038, 11568, 9001, 6288] the 'reducao_desmatamento' that
\* calcular_metricas_ambientais returns is positive: it equals
\* (11568 - 6288) / 11568 * 100, lies within 0.05 of 45.6 and prints as 45.6.
C1_ReducaoIsPositive ==
    (script = "AMZ" /\ HasStats /\ df_temporal.Area_Desmatada_km2 = ReferenceArea)
    => /\ IsQuotient(stats.reducao_desmatamento, (11568 - 6288) * 100, 11568)
       /\ stats.reducao_desmatamento.n > 0
       /\ 4555 * stats.reducao_desmatamento.d <= 100 * stats.reducao_desmatamento.n
       /\ 100 * stats.reducao_desmatamento.n <= 4565 * stats.reducao_desmatamento.d
       /\ PrintedVal("Redução do desmatamento") = [k |-> "num", n |-> 456, d |-> 10]

\* C1 witness: main() of ANL_AMZ has computed its metrics on the series.
C1_Witness ==
    /\ script = "AMZ"
    /\ entry = "main"
    /\ HasStats
    /\ df_temporal.Area_Desmatada_km2 = ReferenceArea

\* C1 as stated: the returned 'reducao_desmatamento' is negative and equals
\* (6288 - 11568) / 11568 * 100, about -45.6.
C1_ReducaoIsNegative ==
    (script = "AMZ" /\ HasStats /\ df_temporal.Area_Desmatada_km2 = ReferenceArea)
    => /\ IsQuotient(stats.reducao_desmatamento, (6288 - 11568) * 100, 11568)
       /\ stats.reducao_desmatamento.n < 0

\* C2: whenever the first row of the column is not 0, each growth statistic
\* returned (aumento_multas; crescimento_acai, crescimento_carvao) equals
\* (last - first) / first * 100 of its column, whatever the rows between.
C2_GrowthFromFirstToLast ==
    HasStats =>
      \A p \in (IF script = "AMZ"
                THEN {<<"aumento_multas", "Multas_Aplicadas">>}
                ELSE {<<"crescimento_acai", "Producao_Acai">>,
                      <<"crescimento_carvao", "Carvao_Vegetal">>}) :
         LET col == df_temporal[p[2]]
         IN  First(col) # 0
             => IsQuotient(stats[p[1]], (Last(col) - First(col)) * 100, First(col))

\* C2 witness: a growth was returned for a column of three or more rows
\* whose first row is not 0, whose last row differs from the first and whose
\* middle row differs from both.
C2_Witness ==
    /\ script = "PEVS"
    /\ HasStats
    /\ LET col == df_temporal.Producao_Acai
       IN  /\ Len(col) >= 3
           /\ First(col) # 0
           /\ Last(col) # First(col)
           /\ col[2] # First(col)
           /\ col[2] # Last(col)
           /\ stats.crescimento_acai.n # 0

\* The cells the calculators divide by.
Bases ==
    IF script = "AMZ"
    THEN {Iloc(df_temporal.Area_Desmatada_km2, 2), First(df_temporal.Multas_Aplicadas)}
    ELSE {First(df_temporal.Producao_Acai), First(df_temporal.Carvao_Vegetal)}

\* C3 as stated: when the base cell of a percentage change is 0 the
\* calculator ends in a division-by-zero error, so no statistics dictionary
\* is returned and no value is printed for the metric.
C3_ZeroBaseIsAnError ==
    HasStats => 0 \notin Bases

\* C4: the leading region the calculators report (estado_lider returned by
\* calcular_estatisticas, the state printed by calcular_metricas_ambientais)
\* is the first row, in input order, whose metric is the column's maximum;
\* on the hardcoded tables it is 'Pará'.
Leader ==
    IF script = "AMZ" THEN PrintedVal("Estado com maior desmatamento")
    ELSE stats.estado_lider

C4_LeaderIsFirstMaximum ==
    HasStats =>
      LET metric == df_estados[EstadosMetric(script)]
      IN  /\ \E i \in 1..Len(metric) :
               /\ df_estados.Estado[i] = Leader
               /\ \A j \in 1..Len(metric) : metric[j] <= metric[i]
               /\ \A j \in 1..(i - 1) : metric[j] < metric[i]
          /\ df_estados = LoadedEstados(script) => Leader = "Pará"

\* C4 witness: a leader was reported for a table in which two rows share the
\* maximum and the first row is below it.
C4_Witness ==
    /\ HasStats
    /\ LET metric == df_estados[EstadosMetric(script)]
       IN  \E i, j \in 1..Len(metric) :
              /\ 1 < i
              /\ i < j
              /\ metric[i] = metric[j]
              /\ metric[1] < metric[i]
              /\ \A h \in 1..Len(metric) : metric[h] <= metric[i]

\* C5 as stated: a chart function handed a time series with no rows fails
\* before any panel is emitted: no dashboard figure holding an artist drawn
\* from the empty series is ever displayed.
C5_EmptySeriesDrawsNothing ==
    (HasTables /\ df_temporal.Ano = <<>>)
    => ~(shown > 0 /\ \E i \in 1..Len(panels) : panels[i].fig = 1 /\ panels[i].n = 0)

\* The statistics the calculators compute.
CalculatorStats ==
    {"reducao_desmatamento", "aumento_multas", "valor_arrecadado", "projecao_2025",
     "crescimento_acai", "crescimento_carvao", "estado_lider", "producao_total"}

Events(kind) == {i \in 1..Len(trace) : trace[i][1] = kind}
CalculatorEvents == {i \in Events("stat") : trace[i][2] \in CalculatorStats}

\* C6 (as amended): in every run of main() the tables are loaded before
\* anything is drawn, computed or read; the chart functions run before the
\* calculator, so every artist is drawn before the calculator computes its
\* first statistic, and the trend lines and the correlation matrix are
\* computed inside the chart functions, after the first panel is drawn and
\* immediately before the artist that shows them; the report printer reads
\* after the calculator; and no value is read before it is computed.
C6_LoadDrawComputeReport ==
    entry = "main" =>
      /\ \A i \in Events("panel") \cup Events("stat") \cup Events("use") :
            \E j \in Events("load") : j < i
      /\ \A i \in Events("panel"), j \in CalculatorEvents : i < j
      /\ CalculatorEvents # {} => Events("panel") # {}
      /\ \A j \in Events("stat") \ CalculatorEvents :
            /\ \E i \in Events("panel") : i < j
            /\ j + 2 <= Len(trace)
            /\ trace[j + 1] = <<"use", trace[j][2]>>
            /\ trace[j + 2][1] = "panel"
      /\ \A i \in Events("use") :
            /\ \E j \in Events("stat") : j < i /\ trace[j][2] = trace[i][2]
            /\ trace[i][2] \in CalculatorStats
               => \A j \in CalculatorEvents : j < i

\* C6 witness: a run of main() has gone through all its steps.
C6_Witness ==
    /\ entry = "main"
    /\ pc = Len(MainOrder(script)) + 1
    /\ CalculatorEvents # {}
    /\ Events("panel") # {}

\* C6 as stated: in every run of main() every derived statistic is computed
\* before the chart functions draw any panel.
C6_StatisticsBeforePanels ==
    entry = "main" =>
      \A i \in Events("panel"), j \in Events("stat") : j < i

Variance(col) == \E i, j \in 1..Len(col) : col[i] # col[j]
HasCorr == DOMAIN correlacao # {}
CorrSet == {CorrNames[i] : i \in 1..3}

\* C7: the matrix analise_correlacao returns is symmetric, is 1 on the
\* diagonal for every column that has variance, and holds no coefficient
\* outside [-1, 1].
C7_CorrelationMatrixShape ==
    HasCorr =>
      /\ \A a, b \in CorrSet : correlacao[<<a, b>>] = correlacao[<<b, a>>]
      /\ \A a \in CorrSet :
            Variance(CorrColumns(df_temporal)[a])
            => /\ correlacao[<<a, a>>].k = "num"
               /\ correlacao[<<a, a>>].s = 1
               /\ correlacao[<<a, a>>].n = correlacao[<<a, a>>].d
      /\ \A a, b \in CorrSet :
            correlacao[<<a, b>>].k = "num"
            => /\ MagCmp(correlacao[<<a, b>>].n, correlacao[<<a, b>>].d) <= 0
               /\ correlacao[<<a, b>>].s \in {-1, 0, 1}

\* C7 witness: a returned matrix with a coefficient strictly between -1 and
\* 0 off the diagonal.
C7_Witness ==
    /\ HasCorr
    /\ \E a, b \in CorrSet :
          /\ a # b
          /\ correlacao[<<a, b>>].k = "num"
          /\ correlacao[<<a, b>>].s = -1
          /\ MagCmp(correlacao[<<a, b>>].n, correlacao[<<a, b>>].d) < 0

\* C8: when a column handed to the correlation has fewer than 2
\* observations or no variance, every entry of the returned matrix that
\* involves it is nan, never 0 or another finite coefficient.
C8_UndefinedIsNaN ==
    HasCorr =>
      \A a \in CorrSet :
         ~Variance(CorrColumns(df_temporal)[a])
         => \A b \in CorrSet : /\ correlacao[<<a, b>>].k = "nan"
                               /\ correlacao[<<b, a>>].k = "nan"

\* C8 witness: a matrix returned for a table of two or more rows in which
\* one column is constant and another has variance.
C8_Witness ==
    /\ HasCorr
    /\ Len(df_temporal.Ano) >= 2
    /\ \E a, b \in CorrSet :
          /\ ~Variance(CorrColumns(df_temporal)[a])
          /\ Variance(CorrColumns(df_temporal)[b])
          /\ correlacao[<<b, b>>].k = "num"

\* C9 as stated: with fewer than 2 rows the trend fits of
\* criar_dashboard_ambiental fail: no coefficients are produced and no trend
\* line is drawn.
C9_FewPointsNoTrend ==
    (script = "AMZ" /\ HasTables /\ Len(df_temporal.Ano) < 2)
    => /\ trend = <<>>
       /\ \A i \in 1..Len(panels) : panels[i].kind # "trend"

\* C10: every key a report printer subscripts is a key of the dictionary its
\* calculator returned, so no run ends in KeyError.
C10_PrinterKeysReturned ==
    /\ HasStats => \A i \in 1..Len(KeysRead(script)) : KeysRead(script)[i] \in DOMAIN stats
    /\ outcome # "KeyError"

\* C10 witness: a report printer has returned, in main() of each script it
\* is reached.
C10_Witness ==
    /\ entry = "main"
    /\ HasStats
    /\ pc = Position(script, "gerar")
    /\ \E i \in Events("use") : trace[i][2] \in DOMAIN stats


\* C11: once the tables exist no step changes them: every step of main()
\* (and every call of a function on a caller's tables) leaves both the time
\* series and the per-state table with the column names and the cell values
\* they had; the renaming in analise_correlacao lands on a copy.
C11_TablesNeverMutated ==
    [][HasTables => (df_temporal' = df_temporal /\ df_estados' = df_estados)]_vars

\* main() of ANL_PEVS has run to its end: the matrix carries the new labels,
\* the table the loader returned still carries its own.
C11_Witness ==
    /\ entry = "main"
    /\ script = "PEVS"
    /\ pc = Len(MainOrder(script)) + 1
    /\ DOMAIN correlacao # {}
    /\ {p[1] : p \in DOMAIN correlacao} = {CorrNames[i] : i \in 1..3}
    /\ DOMAIN df_temporal = {"Ano"} \cup ProductColumns
    /\ df_temporal = PevsTemporal
    /\ df_estados = PevsEstados

EqualLengths(t) == \A a, b \in DOMAIN t : Len(t[a]) = Len(t[b])

StrictlyIncreasing(col) == \A i \in 1..(Len(col) - 1) : col[i] < col[i + 1]

Distinct(col) == \A i, j \in 1..Len(col) : i # j => col[i] # col[j]

\* The columns of doubles of the hardcoded tables.
DoubleColumns(s) ==
    IF s = "AMZ" THEN {"Valor_Multas_Bilhoes", "Multas_Pagas_Percentual"}
    ELSE {"Percentual", "PIB_Agropecuario"}

NoMissing(t, s) ==
    \A c \in DOMAIN t \cap DoubleColumns(s) : \A i \in 1..Len(t[c]) : IsFinite(t[c][i])

\* C12: the tables a loader returns are well formed: within a table every
\* column has one value per row (equal lengths, no missing number), the
\* years of the time series strictly increase, and no state name repeats.
C12_LoadedTablesWellFormed ==
    (entry = "main" /\ HasTables)
    => /\ EqualLengths(df_temporal) /\ EqualLengths(df_estados)
       /\ NoMissing(df_temporal, script) /\ NoMissing(df_estados, script)
       /\ StrictlyIncreasing(df_temporal.Ano)
       /\ Distinct(df_estados.Estado)

\* A loader has just returned its two tables to main(), rows in both.
C12_Witness ==
    /\ entry = "main"
    /\ pc = Position(script, "carregar")
    /\ HasTables
    /\ Len(df_temporal.Ano) >= 5
    /\ Len(df_estados.Estado) = 5
    /\ trace[Len(trace)] = Event("load", "tables")

\* The artists in drawing order, those drawn one after another on the same
\* axes of the same figure gathered into one panel: for each panel what was
\* drawn on it, as <<kind, column>> pairs.
RECURSIVE Grouped(_)
Grouped(as) ==
    IF as = <<>> THEN <<>>
    ELSE LET g == Grouped(SubSeq(as, 1, Len(as) - 1))
             a == as[Len(as)]
         IN  IF g # <<>> /\ g[Len(g)].fig = a.fig /\ g[Len(g)].ax = a.ax
             THEN [g EXCEPT ![Len(g)].draws = Append(@, <<a.kind, a.y>>)]
             ELSE Append(g, [fig |-> a.fig, ax |-> a.ax, draws |-> <<<<a.kind, a.y>>>>])

Draws(g) == [i \in 1..Len(g) |-> g[i].draws]

OncePerAxes(g) == \A i, j \in 1..Len(g) : i # j => <<g[i].fig, g[i].ax>> # <<g[j].fig, g[j].ax>>

\* The six panels of Dashboard A and the four of Dashboard B, in the order
\* the specification lists them.
DashboardA ==
    <<<<<<"line", "Area_Desmatada_km2">>, <<"trend", "Area_Desmatada_km2">>>>,
      <<<<"bar", "Area_km2_2024">>>>,
      <<<<"pie", "Percentual_Desmatamento">>>>,
      <<<<"bar", "Multas_Aplicadas">>>>,
      <<<<"line", "Valor_Multas_Bilhoes">>, <<"twin-line", "Multas_Pagas_Percentual">>>>,
      <<<<"scatter", "Multas_Aplicadas">>, <<"trend", "Multas_Aplicadas">>>>>>

DashboardB ==
    <<<<<<"line", "Producao_Acai">>>>,
      <<<<"bar", "Producao_Acai">>, <<"bar", "Carvao_Vegetal">>>>,
      <<<<"barh", "Producao_Acai">>>>,
      <<<<"pie", "Producao_Acai">>>>>>

HeatmapPanel == <<<<"heatmap", "correlacao">>>>

DashboardDrawn == \E i \in 1..Len(panels) : panels[i].fig = 1
HeatmapDrawn == \E i \in 1..Len(panels) : panels[i].kind = "heatmap"

\* C13: the panels come in a fixed order, each once.  A displayed Dashboard
\* A is line with trend, bar by state, pie, bar of fines, dual-axis lines,
\* scatter with trend; Dashboard B is line, grouped bars, horizontal bars,
\* pie; the heatmap is a panel of its own figure, drawn once and last, and
\* in a run of main() only after the four panels of Dashboard B.
C13_PanelsInFixedOrder ==
    /\ OncePerAxes(Grouped(panels))
    /\ (script = "AMZ" /\ shown >= 1) => Draws(Grouped(panels)) = DashboardA
    /\ (script = "PEVS" /\ DashboardDrawn)
          => /\ Len(Grouped(panels)) >= Len(DashboardB)
             /\ SubSeq(Draws(Grouped(panels)), 1, Len(DashboardB)) = DashboardB
    /\ \A i \in 1..Len(panels) :
          panels[i].kind = "heatmap" => (i = Len(panels) /\ panels[i].fig = 2)
    /\ (entry = "main" /\ HeatmapDrawn)
          => Draws(Grouped(panels)) = DashboardB \o <<HeatmapPanel>>

\* main() of ANL_PEVS has displayed both figures: five panels drawn.
C13_Witness ==
    /\ entry = "main"
    /\ script = "PEVS"
    /\ shown = 2
    /\ DashboardDrawn
    /\ HeatmapDrawn
    /\ Len(Grouped(panels)) = 5

\* C14: the two hardcoded tables of a script agree: the per-state figures
\* add up to the last entry of the matching national series (area and fines
\* in ANL_AMZ, açaí production in ANL_PEVS), so the producao_total that
\* calcular_estatisticas returns is the latest national figure.
C14_StatesSumToLatestNational ==
    /\ (entry = "main" /\ HasTables /\ script = "AMZ")
          => /\ SumSeq(df_estados.Area_km2_2024) = Last(df_temporal.Area_Desmatada_km2)
             /\ SumSeq(df_estados.Multas_2024) = Last(df_temporal.Multas_Aplicadas)
    /\ (entry = "main" /\ HasTables /\ script = "PEVS")
          => SumSeq(df_estados.Producao_Acai) = Last(df_temporal.Producao_Acai)
    /\ (entry = "main" /\ HasStats /\ script = "PEVS")
          => /\ stats.producao_total = Last(df_temporal.Producao_Acai)
             /\ PrintedVal("Produção total 2024") = Last(df_temporal.Producao_Acai)

\* calcular_estatisticas has returned to main() with the total of the five
\* states, 247461.
C14_Witness ==
    /\ entry = "main"
    /\ script = "PEVS"
    /\ HasStats
    /\ pc >= Position(script, "calcular")
    /\ stats.producao_total = 247461
    /\ Len(df_estados.Producao_Acai) = 5

====
